---- MODULE Spec2Model ----
(***************************************************************************)
(* Membraneless electrolyzer: the theoretical model                        *)
(* (code/simulations/electrolyzer_model.py), the experimental analysis     *)
(* (code/analysis/experimental_analysis.py) and the figure generator       *)
(* (code/plotting/figure_generation.py).                                   *)
(*                                                                         *)
(* Numbers.  Python floats are modelled as scaled integers, one unit per   *)
(* quantity:                                                               *)
(*   voltage, overpotential        mV                                      *)
(*   temperature                   0.01 K                                  *)
(*   alpha, exponent of exp, ln    1/1000                                  *)
(*   exp(x)                        1/100                                   *)
(*   exchange current density      0.001 A/m2                              *)
(*   length, width                 cm           (area: cm2)                *)
(*   current density (model)       0.1 A/m2                                *)
(*   current                       0.1 A/m2 * cm2 = 1e-5 A                 *)
(*   power                         1e-4 W                                  *)
(*   efficiency                    1/1000                                  *)
(*   current density (tables)      0.001 A/m2                              *)
(*   Tafel a and b                 mV                                      *)
(*   residuals of the Tafel fit    A/m2     (sums of squares: (A/m2)^2)    *)
(*   R2                            1/1000                                  *)
(*   current (hydrogen production) A                                       *)
(*   hydrogen production rate      0.001 mol/s                             *)
(* Products of integers are exact; a quotient is rounded towards zero to   *)
(* the unit of its result.  The IEEE special values a float operation can  *)
(* produce (overflow of exp, x/0, 0/0) are the integers Inf, -Inf and NaN, *)
(* which lie outside the finite range.  The rounding error of binary       *)
(* floating point is not modelled.                                         *)
(***************************************************************************)
EXTENDS Integers, Sequences, FiniteSets, TLC

VARIABLES
    params,     \* MembranelessElectrolyzer.params
    results,    \* MembranelessElectrolyzer.results
    iv_data,    \* ExperimentalAnalysis.iv_data
    h2_data,    \* ExperimentalAnalysis.h2_data
    iv_file,    \* the rows of current_voltage_measurements.csv
    h2_file,    \* the rows of hydrogen_production_rates.csv
    reads,      \* pd.read_csv calls made so far, per file
    figure,     \* what the last plotting call rendered
    last_op,    \* the operation called last
    last_arg,   \* its arguments
    last_out,   \* how it ended: "ok" or the exception raised
    last_ret,   \* the value it returned
    io,         \* the pd.read_csv calls it made, in order
    pre,        \* the cached tables when it was called
    ctor,       \* the argument the model was constructed with
    simulated,  \* a simulate_iv_curve call has completed
    load_called,\* load_iv_data or load_h2_data has been called by a caller
    read_failed,\* a pd.read_csv call has failed
    fit_calls   \* the curve_fit calls the last operation made, in order

mvars == <<params, results, ctor, simulated>>
avars == <<iv_data, h2_data, iv_file, h2_file, reads, load_called, read_failed>>
cvars == <<last_op, last_arg, last_out, last_ret, io, pre, fit_calls>>
vars == <<mvars, avars, cvars, figure>>

(***************************************************************************)
(* Python's None, an absent return value, an unset figure.                 *)
(***************************************************************************)
None == [none |-> TRUE]
NoValue == [novalue |-> TRUE]

(***************************************************************************)
(* Float arithmetic.                                                       *)
(***************************************************************************)
Inf == 2 * 10^9
NaN == 2 * 10^9 + 1
IsInf(x) == x = Inf \/ x = -Inf
IsFinite(x) == -Inf < x /\ x < Inf

Abs(x) == IF x < 0 THEN -x ELSE x
Sign(x) == IF x < 0 THEN -1 ELSE IF x > 0 THEN 1 ELSE 0

\* Python's min(a, b): b when b < a, else a.
Min(a, b) == IF b < a THEN b ELSE a

\* a / b rounded towards zero, b > 0.
TruncDiv(a, b) == IF a >= 0 THEN a \div b ELSE -((-a) \div b)

\* a * b / s rounded towards zero; the product itself may exceed the
\* integer range, the result may not.
MulDiv(a, b, s) ==
    LET A == Abs(a)
        B == Abs(b)
        q == (A \div s) * B + ((A % s) * B) \div s
    IN  Sign(a) * Sign(b) * q

\* Float product a * b / s with a possibly infinite.
FMulDiv(a, b, s) ==
    IF a = NaN THEN NaN
    ELSE IF IsInf(a) THEN (IF b = 0 THEN NaN ELSE Sign(a) * Sign(b) * Inf)
    ELSE MulDiv(a, b, s)

\* Float difference a - b.
FSub(a, b) ==
    IF a = NaN \/ b = NaN THEN NaN
    ELSE IF IsInf(a) /\ a = b THEN NaN
    ELSE IF IsInf(a) THEN a
    ELSE IF IsInf(b) THEN -b
    ELSE a - b

\* Float quotient a * s / b of a by a finite b: numpy's x/0 is +-inf, 0/0 is
\* nan.  The quotient is built digit by digit (s is 1, 10, 100 or 1000).
RECURSIVE LongDiv(_, _, _)
LongDiv(r, b, s) ==
    IF s = 1 THEN 0
    ELSE ((r * 10) \div b) * (s \div 10) + LongDiv((r * 10) % b, b, s \div 10)

FDiv(a, b, s) ==
    IF a = NaN \/ b = NaN THEN NaN
    ELSE IF b = 0 THEN (IF a = 0 THEN NaN ELSE Sign(a) * Inf)
    ELSE IF IsInf(a) THEN Sign(a) * Sign(b) * Inf
    ELSE LET A == Abs(a)
             B == Abs(b)
         IN  Sign(a) * Sign(b) * ((A \div B) * s + LongDiv(A % B, B, s))

(***************************************************************************)
(* np.exp and np.log.                                                      *)
(* exp(x) = 2^k * exp(r) with x = k ln 2 + r, 0 <= r < ln 2, and exp(r)    *)
(* by its series to the third order; it overflows to Inf above ExpMaxArg   *)
(* as np.exp does above 709.78.                                            *)
(***************************************************************************)
LN2 == 693
LN10 == 2303
ExpMaxArg == 24 * LN2 - 1

Exp(x) ==
    IF x > ExpMaxArg THEN Inf
    ELSE LET k == x \div LN2
             r == x - k * LN2
             series == 1000 + r + (r * r) \div 2000 + (r * r * r) \div 6000000
             c == series \div 10
         IN  IF k >= 0 THEN c * 2^k
             ELSE IF k < -30 THEN 0
             ELSE c \div 2^(-k)

\* ln(10^d / 1000): the concentration 10^d mol/m3 against the 1 M reference.
LogConcentration(d) == (d - 3) * LN10

(***************************************************************************)
(* code/utils/constants.py                                                 *)
(***************************************************************************)
FARADAY_CONSTANT == 96485
GAS_CONSTANT == 8314
STANDARD_HYDROGEN_POTENTIAL == 0
STANDARD_OXYGEN_POTENTIAL == 1229
THEORETICAL_CELL_VOLTAGE == 1229

LENGTH == 5
WIDTH == 2
ELECTRODE_SEPARATION == 5
ANODE_EXCHANGE_CURRENT == 1
CATHODE_EXCHANGE_CURRENT == 10
ANODE_CHARGE_TRANSFER == 500
CATHODE_CHARGE_TRANSFER == 500
ROUGHNESS_FACTOR == 100
TEMPERATURE == 29815
PRESSURE == 101325
INLET_VELOCITY == 10

(***************************************************************************)
(* MembranelessElectrolyzer                                                *)
(***************************************************************************)
Keys == {"length", "width", "height", "temperature", "pressure",
         "inlet_velocity", "anode_i0", "cathode_i0", "alpha_a", "alpha_c",
         "roughness"}

_get_default_parameters ==
    [k \in Keys |->
        CASE k = "length" -> LENGTH
          [] k = "width" -> WIDTH
          [] k = "height" -> ELECTRODE_SEPARATION
          [] k = "temperature" -> TEMPERATURE
          [] k = "pressure" -> PRESSURE
          [] k = "inlet_velocity" -> INLET_VELOCITY
          [] k = "anode_i0" -> ANODE_EXCHANGE_CURRENT
          [] k = "cathode_i0" -> CATHODE_EXCHANGE_CURRENT
          [] k = "alpha_a" -> ANODE_CHARGE_TRANSFER
          [] k = "alpha_c" -> CATHODE_CHARGE_TRANSFER
          [] k = "roughness" -> ROUGHNESS_FACTOR]

\* Python's truth value of the constructor argument: None and {} are false.
Falsy(parameters) == parameters = None \/ DOMAIN parameters = {}

\* A constructor that would fill in each omitted key from the defaults:
\* {**defaults, **parameters}.  The code does not do this.
InitParamsMerged(parameters) ==
    [k \in Keys |->
        IF ~Falsy(parameters) /\ k \in DOMAIN parameters
        THEN parameters[k] ELSE _get_default_parameters[k]]

\* __init__: self.params = parameters or self._get_default_parameters()
InitParams(parameters) ==
    IF Falsy(parameters) THEN _get_default_parameters ELSE parameters

\* F / (R T) in 1/1000 per volt and R T / F in microvolt.
RT(p) == (GAS_CONSTANT * p["temperature"]) \div 10^5
F_RT(p) == (FARADAY_CONSTANT * 1000) \div RT(p)
RT_F(p) == (RT(p) * 10^5) \div (FARADAY_CONSTANT \div 10)

\* alpha * n * F_RT * overpotential, in 1/1000.
Exponent(p, coeff, n, overpotential) ==
    TruncDiv(TruncDiv(coeff * n * F_RT(p), 1000) * overpotential, 1000)

\* A Butler-Volmer law without its cathodic branch.
ButlerVolmerAnodicOnly(p, overpotential, i0, alpha, n) ==
    LET anodic == Exp(Exponent(p, alpha, n, overpotential))
    IN  FMulDiv(anodic, i0 * p["roughness"], 10^4)

butler_volmer(p, overpotential, i0, alpha, n) ==
    LET anodic == Exp(Exponent(p, alpha, n, overpotential))
        cathodic == Exp(-Exponent(p, 1000 - alpha, n, overpotential))
    IN  FMulDiv(FSub(anodic, cathodic), i0 * p["roughness"], 10^4)

\* A cathode overpotential that would be taken against the applied voltage.
CalculateOverpotentialsAgainstVoltage(p, voltage, concentrations) ==
    LET anode_nernst == STANDARD_OXYGEN_POTENTIAL
        cathode_nernst ==
            IF "H+" \in DOMAIN concentrations
            THEN STANDARD_HYDROGEN_POTENTIAL
                   - TruncDiv(RT_F(p) * LogConcentration(concentrations["H+"]), 10^6)
            ELSE STANDARD_HYDROGEN_POTENTIAL
        eta_a == voltage - anode_nernst
        eta_c == cathode_nernst - voltage
    IN  <<eta_a, eta_c>>

\* concentrations maps a species to the decimal exponent of its
\* concentration in mol/m3; concentrations.get('H+') is None when absent.
calculate_overpotentials(p, voltage, concentrations) ==
    LET anode_nernst == STANDARD_OXYGEN_POTENTIAL
        cathode_nernst ==
            IF "H+" \in DOMAIN concentrations
            THEN STANDARD_HYDROGEN_POTENTIAL
                   - TruncDiv(RT_F(p) * LogConcentration(concentrations["H+"]), 10^6)
            ELSE STANDARD_HYDROGEN_POTENTIAL
        eta_a == voltage - anode_nernst
        eta_c == cathode_nernst - 0
    IN  <<eta_a, eta_c>>

\* A sampling that leaves the end of the range out.
LinspaceOpenEnd(start, stop, num) ==
    [i \in 1..num |-> start + TruncDiv((i - 1) * (stop - start), num)]

\* np.linspace(start, stop, num)
linspace(start, stop, num) ==
    [i \in 1..num |->
        IF i = 1 THEN start
        ELSE IF i = num THEN stop
        ELSE start + TruncDiv((i - 1) * (stop - start), num - 1)]

\* pH 7: 1e-7 mol/L * 1000 = 1e-4 mol/m3.
PH7_DECADE == -4
SweepConcentrations == [s \in {"H+"} |-> PH7_DECADE]

\* The keys simulate_iv_curve reads: all of them in the loop body, length
\* and width again after the loop.
LoopKeys == {"temperature", "roughness", "anode_i0", "alpha_a",
             "cathode_i0", "alpha_c", "length", "width"}
NeededKeys(num_points) ==
    IF num_points > 0 THEN LoopKeys ELSE {"length", "width"}

\* A loop body that would pass the cathode's electron count to the anode.
CellCurrentDensitySameN(p, voltage) ==
    LET eta == calculate_overpotentials(p, voltage, SweepConcentrations)
        i_a == butler_volmer(p, eta[1], p["anode_i0"], p["alpha_a"], 2)
        i_c == butler_volmer(p, eta[2], p["cathode_i0"], p["alpha_c"], 2)
    IN  Min(Abs(i_a), Abs(i_c))

\* A loop body that would keep the direction of the anode current.
CellCurrentDensitySigned(p, voltage) ==
    LET eta == calculate_overpotentials(p, voltage, SweepConcentrations)
        i_a == butler_volmer(p, eta[1], p["anode_i0"], p["alpha_a"], 4)
        i_c == butler_volmer(p, eta[2], p["cathode_i0"], p["alpha_c"], 2)
    IN  Sign(i_a) * Min(Abs(i_a), Abs(i_c))

\* One pass of the loop body: the cell current density at one voltage.
CellCurrentDensity(p, voltage) ==
    LET eta == calculate_overpotentials(p, voltage, SweepConcentrations)
        i_a == butler_volmer(p, eta[1], p["anode_i0"], p["alpha_a"], 4)
        i_c == butler_volmer(p, eta[2], p["cathode_i0"], p["alpha_c"], 2)
    IN  Min(Abs(i_a), Abs(i_c))

DefaultRange == <<1000, 2500>>

\* The dictionary simulate_iv_curve stores and returns.
SweepResult(p, voltage_range, num_points) ==
    LET vr == IF voltage_range = None THEN DefaultRange ELSE voltage_range
        voltages == linspace(vr[1], vr[2], num_points)
        area == p["length"] * p["width"]
        currents == [i \in 1..num_points |->
                        FMulDiv(CellCurrentDensity(p, voltages[i]), area, 1)]
    IN  [voltage |-> voltages,
         current |-> currents,
         current_density |-> [i \in 1..num_points |-> FDiv(currents[i], area, 1)],
         power |-> [i \in 1..num_points |->
                       FMulDiv(currents[i], voltages[i], 10^4)],
         efficiency |-> [i \in 1..num_points |->
                            FDiv(THEORETICAL_CELL_VOLTAGE, voltages[i], 1000)]]

\* A production rate counted with one electron per hydrogen molecule.
HydrogenProductionOneElectron(current) ==
    FDiv(current, FARADAY_CONSTANT, 1000)

\* current / (2 * FARADAY_CONSTANT), current in A, the rate in 0.001 mol/s.
HydrogenProduction(current) ==
    FDiv(current, 2 * FARADAY_CONSTANT, 1000)

\* theoretical_power / actual_power
EnergyEfficiency(voltage, current) ==
    FDiv(THEORETICAL_CELL_VOLTAGE * current, voltage * current, 1000)

(***************************************************************************)
(* Inputs.                                                                 *)
(***************************************************************************)
MaxPoints == 3

\* A complete caller-supplied parameter set: every value differs from the
\* default where the arithmetic range allows it.
CallerParams(len, ac) ==
    [k \in Keys |->
        CASE k = "length" -> len
          [] k = "alpha_c" -> ac
          [] k = "height" -> 8
          [] k = "pressure" -> 200000
          [] k = "inlet_velocity" -> 20
          [] k = "temperature" -> 35000
          [] OTHER -> _get_default_parameters[k]]

Restrict(f, S) == [k \in S |-> f[k]]

Omissions ==
    {{}, Keys, {"height", "pressure", "inlet_velocity"}, {"anode_i0", "alpha_a"}}
      \cup {{k} : k \in Keys}

\* No argument, complete caller sets, and one caller set with keys left out.
ParameterInputs ==
    {None}
      \cup {CallerParams(len, ac) : len \in {0, 3}, ac \in {125, 500}}
      \cup {Restrict(CallerParams(3, 500), Keys \ om) : om \in Omissions}

\* voltage_range arguments: omitted, ascending, descending and of one value.
VoltageRanges ==
    {None, <<1129, 1329>>, <<1229, 2000>>, <<1329, 1129>>, <<1229, 1229>>}

\* Arguments of a direct butler_volmer call: overpotentials on both sides
\* of the equilibrium and at it, with the exchange current density, the
\* charge-transfer coefficient and the electron count of each electrode of
\* the sweep, of an asymmetric one-electron reaction (n at its default)
\* and of an inert electrode.
Overpotentials == {-100, 0, 100}
Kinetics == {<<1, 500, 4>>, <<10, 500, 2>>, <<10, 125, 1>>, <<0, 875, 1>>}

\* Arguments of a direct calculate_overpotentials call: a cell voltage
\* below, at and above the anode equilibrium, and surface concentrations
\* without 'H+' (none at all, or another species only), with 'H+' at pH 7
\* and with 'H+' at the 1 M reference.
CellVoltages == {1000, 1229, 2000}
ConcentrationInputs ==
    {[s \in {} |-> 0], [s \in {"OH-"} |-> PH7_DECADE],
     [s \in {"H+"} |-> PH7_DECADE], [s \in {"H+"} |-> 3]}

\* Currents in A handed to calculate_hydrogen_production: none, a stack
\* current, its reverse, Faraday's constant and twice Faraday's constant.
Currents == {0, 1000, -1000, FARADAY_CONSTANT, 2 * FARADAY_CONSTANT}

\* The largest current calculate_energy_efficiency is called with: its
\* two products stay inside the integers.
MaxEffCurrent == 80000

(***************************************************************************)
(* ExperimentalAnalysis: tables and the file-reading collaborator.         *)
(* A table is a DataFrame object: an identity and its rows.  Every         *)
(* successful pd.read_csv builds a new object.  An IV row carries          *)
(* voltage_V and current_density_A_m2, a hydrogen row faradaic_efficiency  *)
(* (1/1000) and h2_production_mmol_s (1e-6 mmol/s).                        *)
(***************************************************************************)
IvRow(v, cd) == [voltage_V |-> v, current_density_A_m2 |-> cd]
H2Row(fe, rate) == [faradaic_efficiency |-> fe, h2_production_mmol_s |-> rate]

IvExample == <<IvRow(1000, 0), IvRow(1500, 50000), IvRow(2000, 100000)>>
IvMeasured == <<IvRow(1200, 0), IvRow(1400, 0), IvRow(1600, 80000),
                IvRow(1800, 240000)>>
\* The same operating point measured twice.
IvRepeated == <<IvRow(1500, 50000), IvRow(1500, 50000)>>
IvTables == {<<>>, IvRepeated, IvExample, IvMeasured}

H2Example == <<H2Row(990, 2500), H2Row(1010, 5200)>>
H2Tables == {H2Example}

Column(rows, name) == [i \in 1..Len(rows) |-> rows[i][name]]

\* Series.max(), Series.min(), Series.mean(): NaN on an empty column.
RECURSIVE Sum(_)
Sum(s) == IF s = <<>> THEN 0 ELSE Head(s) + Sum(Tail(s))
Range(s) == {s[i] : i \in 1..Len(s)}
SeriesMax(s) ==
    IF s = <<>> THEN NaN ELSE CHOOSE m \in Range(s) : \A y \in Range(s) : y <= m
SeriesMin(s) ==
    IF s = <<>> THEN NaN ELSE CHOOSE m \in Range(s) : \A y \in Range(s) : m <= y
SeriesMean(s) == FDiv(Sum(s), Len(s), 1)

\* An interpolation that would continue the first and the last segment
\* beyond the table instead of clamping.
InterpExtrapolating(x, xp, fp) ==
    LET n == Len(xp)
        below == {i \in 1..n : xp[i] <= x}
        j == IF n = 1 THEN 1
             ELSE IF below = {} THEN 1
             ELSE LET k == CHOOSE i \in below : \A m \in below : m <= i
                  IN  IF k = n THEN n - 1 ELSE k
    IN  IF n = 1 \/ xp[j + 1] = xp[j] THEN fp[j]
        ELSE fp[j] + TruncDiv((fp[j + 1] - fp[j]) * (x - xp[j]), xp[j + 1] - xp[j])

\* An interpolation that would return the sample to the left of the query.
InterpLeftSample(x, xp, fp) ==
    LET n == Len(xp)
        below == {i \in 1..n : xp[i] <= x}
    IN  IF below = {} THEN fp[1]
        ELSE fp[CHOOSE i \in below : \A k \in below : k <= i]

\* np.interp(x, xp, fp) on a non-empty xp in non-decreasing order.
Interp(x, xp, fp) ==
    LET n == Len(xp)
    IN  IF x < xp[1] THEN fp[1]
        ELSE IF x > xp[n] THEN fp[n]
        ELSE LET below == {i \in 1..n : xp[i] <= x}
                 j == CHOOSE i \in below : \A k \in below : k <= i
             IN  IF j = n THEN fp[n]
                 ELSE IF xp[j] = x THEN fp[j]
                 ELSE fp[j] + TruncDiv((fp[j + 1] - fp[j]) * (x - xp[j]),
                                       xp[j + 1] - xp[j])

(***************************************************************************)
(* The body of a call runs on a record c: the two cached tables, the       *)
(* pd.read_csv calls made so far in the call, and err, "ok" until an       *)
(* exception is raised; once raised, the rest of the call is skipped.      *)
(* A method body maps c to [c, val], val being the value it returns.       *)
(***************************************************************************)
Start == [iv |-> iv_data, h2 |-> h2_data, log |-> <<>>, fits |-> <<>>,
          err |-> "ok"]
Raise(c, e) == [c EXCEPT !.err = e]
Done(c, v) == [c |-> c, val |-> IF c.err = "ok" THEN v ELSE NoValue]

Attempts(log, f) == Cardinality({i \in 1..Len(log) : log[i].file = f})
Failures(log) == {i \in 1..Len(log) : ~log[i].ok}

\* A read that would try again after a failure and carry on.
ReadCsvRetry(c, f, readable) ==
    LET log2 == Append(c.log, [file |-> f, ok |-> readable])
        log3 == IF readable THEN log2 ELSE Append(log2, [file |-> f, ok |-> TRUE])
        table == [id |-> reads[f] + Attempts(log3, f),
                  rows |-> IF f = "iv" THEN iv_file ELSE h2_file]
    IN  IF c.err # "ok" THEN c
        ELSE [c EXCEPT !.log = log3, ![f] = table]

\* A read that would drop the cached table when the file cannot be read.
ReadCsvClearing(c, f, readable) ==
    LET log2 == Append(c.log, [file |-> f, ok |-> readable])
        table == [id |-> reads[f] + Attempts(log2, f),
                  rows |-> IF f = "iv" THEN iv_file ELSE h2_file]
    IN  IF c.err # "ok" THEN c
        ELSE IF readable THEN [c EXCEPT !.log = log2, ![f] = table]
        ELSE [c EXCEPT !.log = log2, ![f] = None, !.err = "FileNotFoundError"]

\* pd.read_csv(filepath, comment='#') and the assignment of its result;
\* readable says whether the file can be read at this moment.
ReadCsv(c, f, readable) ==
    LET log2 == Append(c.log, [file |-> f, ok |-> readable])
        table == [id |-> reads[f] + Attempts(log2, f),
                  rows |-> IF f = "iv" THEN iv_file ELSE h2_file]
    IN  IF c.err # "ok" THEN c
        ELSE IF readable THEN [c EXCEPT !.log = log2, ![f] = table]
        ELSE [c EXCEPT !.log = log2, !.err = "FileNotFoundError"]

\* A load_iv_data that would return the cached table when there is one.
LoadIvDataCached(c, readable) ==
    IF c.err = "ok" /\ c.iv # None THEN Done(c, c.iv)
    ELSE LET c1 == ReadCsv(c, "iv", readable) IN Done(c1, c1.iv)

LoadIvData(c, readable) ==
    LET c1 == ReadCsv(c, "iv", readable) IN Done(c1, c1.iv)

LoadH2Data(c, readable) ==
    LET c1 == ReadCsv(c, "h2", readable) IN Done(c1, c1.h2)

\* A lazy step without the test on self.iv_data: it would load every time.
EnsureIvAlways(c, readable) ==
    IF c.err = "ok" THEN LoadIvData(c, readable).c ELSE c

\* A lazy step that would reject a query on a table not loaded yet.
EnsureIvRejecting(c, readable) ==
    IF c.err = "ok" /\ c.iv = None THEN Raise(c, "ValueError") ELSE c

\* if self.iv_data is None: self.load_iv_data()
EnsureIv(c, readable) ==
    IF c.err = "ok" /\ c.iv = None THEN LoadIvData(c, readable).c ELSE c

\* if self.h2_data is None: self.load_h2_data()
EnsureH2(c, readable) ==
    IF c.err = "ok" /\ c.h2 = None THEN LoadH2Data(c, readable).c ELSE c

\* np.interp raises ValueError on an empty array of sample points.
InterpColumns(c, x, xname, fname) ==
    IF c.err # "ok" THEN Done(c, NoValue)
    ELSE IF c.iv.rows = <<>> THEN Done(Raise(c, "ValueError"), NoValue)
    ELSE Done(c, Interp(x, Column(c.iv.rows, xname), Column(c.iv.rows, fname)))

InterpolateCurrent(c, readable, voltage) ==
    InterpColumns(EnsureIv(c, readable), voltage,
                  "voltage_V", "current_density_A_m2")

InterpolateVoltage(c, readable, current_density) ==
    InterpColumns(EnsureIv(c, readable), current_density,
                  "current_density_A_m2", "voltage_V")

\* tafel_equation(eta, a, b) = np.exp((eta - a) / b), b > 0.
TafelEquation(eta, a, b) == Exp(TruncDiv((eta - a) * 1000, b))

\* p0=[1.0, 0.1]
TafelInitialGuess == [a |-> 1000, b |-> 100]

\* curve_fit(tafel_equation, voltage, current, p0, maxfev=5000) without
\* bounds (Levenberg-Marquardt).  It raises ValueError on empty data,
\* TypeError on fewer data than the two parameters, RuntimeError when
\* the optimizer stops without converging; otherwise it returns the
\* parameters popt the optimizer ends on and their covariance, which is
\* filled with inf when the data do not outnumber the parameters.  Which
\* popt the optimizer ends on is not computed here: it is an input.
CurveFit(c, voltage, current, converges, popt) ==
    LET n == Len(current)
        call == [voltage |-> voltage, current |-> current,
                 converged |-> n >= 2 /\ converges]
        c1 == [c EXCEPT !.fits = Append(c.fits, call)]
    IN  IF n = 0 THEN Done(Raise(c1, "ValueError"), NoValue)
        ELSE IF n = 1 THEN Done(Raise(c1, "TypeError"), NoValue)
        ELSE IF ~converges THEN Done(Raise(c1, "RuntimeError"), NoValue)
        ELSE Done(c1, [popt |-> popt,
                       pcov |-> IF n > 2 THEN "estimated" ELSE "inf"])

\* np.sum((current - y) ** 2), y a prediction or the mean, in (A/m2)^2.
SumSquares(residuals) ==
    Sum([i \in 1..Len(residuals) |-> residuals[i] * residuals[i]])

\* r_squared = 1 - (ss_res / ss_tot)
RSquared(voltage, current, popt) ==
    LET n == Len(current)
        y_pred == [i \in 1..n |-> TafelEquation(voltage[i], popt.a, popt.b)]
        mean == SeriesMean(current)
        ss_res == SumSquares([i \in 1..n |->
                      TruncDiv(current[i], 1000) - TruncDiv(y_pred[i], 100)])
        ss_tot == SumSquares([i \in 1..n |-> TruncDiv(current[i] - mean, 1000)])
    IN  FSub(1000, FDiv(ss_res, ss_tot, 1000))

\* A fit that would catch what curve_fit raises and report the initial
\* guess instead.
FitTafelEquationGuarded(c, readable, voltage_range, converges, popt) ==
    LET c1 == EnsureIv(c, readable)
        InWindow(row) == /\ row.voltage_V >= voltage_range[1]
                         /\ row.voltage_V <= voltage_range[2]
        window == SelectSeq(c1.iv.rows, InWindow)
        voltage == Column(window, "voltage_V")
        current == Column(window, "current_density_A_m2")
        fit == CurveFit(c1, voltage, current, converges, popt)
        caught == [fit.c EXCEPT !.err = "ok"]
        used == IF fit.c.err = "ok" THEN fit.val
                ELSE [popt |-> TafelInitialGuess, pcov |-> "inf"]
    IN  IF c1.err # "ok" THEN Done(c1, NoValue)
        ELSE Done(caught, [a |-> used.popt.a,
                           b |-> used.popt.b,
                           r_squared |-> RSquared(voltage, current, used.popt),
                           covariance |-> used.pcov,
                           voltage_range |-> voltage_range])

\* A fit that would take the window without its upper bound.
FitTafelEquationHalfOpen(c, readable, voltage_range, converges, popt) ==
    LET c1 == EnsureIv(c, readable)
        InWindow(row) == /\ row.voltage_V >= voltage_range[1]
                         /\ row.voltage_V < voltage_range[2]
        window == SelectSeq(c1.iv.rows, InWindow)
        voltage == Column(window, "voltage_V")
        current == Column(window, "current_density_A_m2")
        fit == CurveFit(c1, voltage, current, converges, popt)
    IN  IF c1.err # "ok" THEN Done(c1, NoValue)
        ELSE IF fit.c.err # "ok" THEN fit
        ELSE Done(fit.c, [a |-> fit.val.popt.a,
                          b |-> fit.val.popt.b,
                          r_squared |-> RSquared(voltage, current, fit.val.popt),
                          covariance |-> fit.val.pcov,
                          voltage_range |-> voltage_range])

FitTafelEquation(c, readable, voltage_range, converges, popt) ==
    LET c1 == EnsureIv(c, readable)
        InWindow(row) == /\ row.voltage_V >= voltage_range[1]
                         /\ row.voltage_V <= voltage_range[2]
        window == SelectSeq(c1.iv.rows, InWindow)
        voltage == Column(window, "voltage_V")
        current == Column(window, "current_density_A_m2")
        fit == CurveFit(c1, voltage, current, converges, popt)
    IN  IF c1.err # "ok" THEN Done(c1, NoValue)
        ELSE IF fit.c.err # "ok" THEN fit
        ELSE Done(fit.c, [a |-> fit.val.popt.a,
                          b |-> fit.val.popt.b,
                          r_squared |-> RSquared(voltage, current, fit.val.popt),
                          covariance |-> fit.val.pcov,
                          voltage_range |-> voltage_range])

TafelDefaultRange == <<1200, 1800>>

CalculatePerformanceMetrics(c, iv_readable, h2_readable) ==
    LET c1 == EnsureIv(c, iv_readable)
        c2 == EnsureH2(c1, h2_readable)
        i15 == InterpolateCurrent(c2, TRUE, 1500)
        i20 == InterpolateCurrent(i15.c, TRUE, 2000)
        v100 == InterpolateVoltage(i20.c, TRUE, 100000)
        v200 == InterpolateVoltage(v100.c, TRUE, 200000)
        c3 == v200.c
    IN  IF c3.err # "ok" THEN Done(c3, NoValue)
        ELSE Done(c3,
               [current_at_1_5V |-> i15.val,
                current_at_2_0V |-> i20.val,
                max_current_density |->
                    SeriesMax(Column(c3.iv.rows, "current_density_A_m2")),
                voltage_at_100_A_m2 |-> v100.val,
                voltage_at_200_A_m2 |-> v200.val,
                avg_faradaic_efficiency |->
                    SeriesMean(Column(c3.h2.rows, "faradaic_efficiency")),
                min_faradaic_efficiency |->
                    SeriesMin(Column(c3.h2.rows, "faradaic_efficiency")),
                max_h2_rate_mmol_s |->
                    SeriesMax(Column(c3.h2.rows, "h2_production_mmol_s"))])

GenerateSummaryReport(c, iv_readable, h2_readable, converges, popt) ==
    LET metrics == CalculatePerformanceMetrics(c, iv_readable, h2_readable)
        tafel_fit == FitTafelEquation(metrics.c, TRUE, TafelDefaultRange,
                                      converges, popt)
        c2 == tafel_fit.c
    IN  IF c2.err # "ok" THEN Done(c2, NoValue)
        ELSE Done(c2, [metrics |-> metrics.val,
                       tafel_fit |-> tafel_fit.val,
                       iv_points |-> Len(c2.iv.rows),
                       h2_points |-> Len(c2.h2.rows)])

(***************************************************************************)
(* Bounds of the analysis.                                                 *)
(***************************************************************************)
MaxReads == 3

QueryVoltages == {900, 1250, 1500, 3000}
QueryCurrents == {-5000, 25000, 300000}
TafelRanges == {TafelDefaultRange, <<1500, 1500>>, <<1200, 1400>>}

\* Parameters the optimizer may end on: the initial guess and a close fit
\* of IvMeasured.
FitCandidates == {TafelInitialGuess, [a |-> 800, b |-> 180]}

(***************************************************************************)
(* FigureGenerator: it owns one ExperimentalAnalysis and one               *)
(* MembranelessElectrolyzer built with the default parameters.  A figure   *)
(* method runs on a record g: the call record c of the analysis, the       *)
(* model's results and the figure rendered last.                           *)
(***************************************************************************)
FigureRange == <<1000, 2500>>
FigurePoints == 50

\* The sweep of figure_2_iv_curves; on the default parameters it is the
\* same value at every call.
DefaultFigureSweep ==
    SweepResult(_get_default_parameters, FigureRange, FigurePoints)
FigureSweep(p) ==
    IF p = _get_default_parameters THEN DefaultFigureSweep
    ELSE SweepResult(p, FigureRange, FigurePoints)

StartFigures ==
    [c |-> Start, results |-> results, simulated |-> simulated, figure |-> figure]

Figure1Schematic(g) ==
    IF g.c.err # "ok" THEN g
    ELSE [g EXCEPT !.figure = [name |-> "fig1_schematic"]]

Figure2IvCurves(g, readable, converges, popt) ==
    LET loaded == LoadIvData(g.c, readable).c
        sim_results == FigureSweep(params)
        tafel_fit == FitTafelEquation(loaded, TRUE, TafelDefaultRange,
                                      converges, popt)
        g1 == [g EXCEPT !.c = loaded]
        g2 == [g1 EXCEPT !.results = sim_results, !.simulated = TRUE,
                         !.c = tafel_fit.c]
    IN  IF g.c.err # "ok" THEN g
        ELSE IF loaded.err # "ok" THEN g1
        ELSE IF tafel_fit.c.err # "ok" THEN g2
        ELSE [g2 EXCEPT !.figure = [name |-> "fig2_iv_curves",
                                    experimental |-> loaded.iv.id,
                                    tafel_fit |-> tafel_fit.val]]

Figure3HydrogenProduction(g, readable) ==
    LET loaded == LoadH2Data(g.c, readable).c
    IN  IF g.c.err # "ok" THEN g
        ELSE IF loaded.err # "ok" THEN [g EXCEPT !.c = loaded]
        ELSE [g EXCEPT !.c = loaded,
                       !.figure = [name |-> "fig3_hydrogen_production",
                                   experimental |-> loaded.h2.id]]

Figure4Efficiency(g, readable) ==
    LET loaded == LoadIvData(g.c, readable).c
    IN  IF g.c.err # "ok" THEN g
        ELSE IF loaded.err # "ok" THEN [g EXCEPT !.c = loaded]
        ELSE [g EXCEPT !.c = loaded,
                       !.figure = [name |-> "fig4_efficiency",
                                   experimental |-> loaded.iv.id]]

GenerateAllFigures(g, iv_readable, converges, popt, h2_readable, iv_again) ==
    Figure4Efficiency(
        Figure3HydrogenProduction(
            Figure2IvCurves(Figure1Schematic(g), iv_readable, converges, popt),
            h2_readable),
        iv_again)

(***************************************************************************)
(* Initial states.                                                         *)
(***************************************************************************)
InitCall ==
    /\ last_op = "__init__"
    /\ last_arg = <<>>
    /\ last_out = "ok"
    /\ last_ret = NoValue
    /\ io = <<>>
    /\ fit_calls = <<>>
    /\ pre = [iv |-> None, h2 |-> None]
    /\ figure = None

InitTables ==
    /\ iv_data = None
    /\ h2_data = None
    /\ reads = [iv |-> 0, h2 |-> 0]
    /\ load_called = FALSE
    /\ read_failed = FALSE

\* MembranelessElectrolyzer(parameters) beside an analysis of the example files.
InitModel ==
    /\ ctor \in ParameterInputs
    /\ params = InitParams(ctor)
    /\ results = None
    /\ simulated = FALSE
    /\ iv_file = IvExample
    /\ h2_file = H2Example
    /\ InitTables
    /\ InitCall

\* ExperimentalAnalysis(data_path) over any of the files, beside the
\* default-constructed model of the figure generator.
InitAnalysis ==
    /\ ctor = None
    /\ params = InitParams(ctor)
    /\ results = None
    /\ simulated = FALSE
    /\ iv_file \in IvTables
    /\ h2_file \in H2Tables
    /\ InitTables
    /\ InitCall

(***************************************************************************)
(* Operations of the model.                                                *)
(***************************************************************************)
\* A call that would fill in the default parameters after a KeyError.
ModelCallDefaulting(name, args, outcome, value) ==
    /\ last_op' = name
    /\ last_arg' = args
    /\ last_out' = outcome
    /\ last_ret' = value
    /\ io' = <<>>
    /\ fit_calls' = <<>>
    /\ pre' = [iv |-> iv_data, h2 |-> h2_data]
    /\ params' = IF outcome = "KeyError"
                 THEN [k \in Keys |-> IF k \in DOMAIN params THEN params[k]
                                      ELSE _get_default_parameters[k]]
                 ELSE params
    /\ UNCHANGED <<ctor, avars>>

ModelCall(name, args, outcome, value) ==
    /\ last_op' = name
    /\ last_arg' = args
    /\ last_out' = outcome
    /\ last_ret' = value
    /\ io' = <<>>
    /\ fit_calls' = <<>>
    /\ pre' = [iv |-> iv_data, h2 |-> h2_data]
    /\ UNCHANGED <<params, ctor, avars>>

\* A simulate_iv_curve that would keep the result of an earlier call and
\* only return the new one.
simulate_iv_curve_first_kept(voltage_range, num_points) ==
    IF NeededKeys(num_points) \subseteq DOMAIN params
    THEN /\ results' = IF results = None
                       THEN SweepResult(params, voltage_range, num_points)
                       ELSE results
         /\ simulated' = TRUE
         /\ ModelCall("simulate_iv_curve", <<voltage_range, num_points>>,
                      "ok", SweepResult(params, voltage_range, num_points))
         /\ UNCHANGED figure
    ELSE /\ ModelCall("simulate_iv_curve", <<voltage_range, num_points>>,
                      "KeyError", NoValue)
         /\ UNCHANGED <<results, simulated, figure>>

simulate_iv_curve(voltage_range, num_points) ==
    IF NeededKeys(num_points) \subseteq DOMAIN params
    THEN /\ results' = SweepResult(params, voltage_range, num_points)
         /\ simulated' = TRUE
         /\ ModelCall("simulate_iv_curve", <<voltage_range, num_points>>,
                      "ok", results')
         /\ UNCHANGED figure
    ELSE /\ ModelCall("simulate_iv_curve", <<voltage_range, num_points>>,
                      "KeyError", NoValue)
         /\ UNCHANGED <<results, simulated, figure>>

calculate_energy_efficiency(voltage, current) ==
    /\ ModelCall("calculate_energy_efficiency", <<voltage, current>>,
                 "ok", EnergyEfficiency(voltage, current))
    /\ UNCHANGED <<results, simulated, figure>>

\* A direct call of butler_volmer: it reads temperature and roughness.
call_butler_volmer(overpotential, i0, alpha, n) ==
    /\ IF {"temperature", "roughness"} \subseteq DOMAIN params
       THEN ModelCall("butler_volmer", <<overpotential, i0, alpha, n>>, "ok",
                      butler_volmer(params, overpotential, i0, alpha, n))
       ELSE ModelCall("butler_volmer", <<overpotential, i0, alpha, n>>,
                      "KeyError", NoValue)
    /\ UNCHANGED <<results, simulated, figure>>

\* A direct call of calculate_overpotentials: it reads temperature when
\* the caller supplies an 'H+' concentration.
call_calculate_overpotentials(voltage, concentrations) ==
    /\ IF "H+" \in DOMAIN concentrations => "temperature" \in DOMAIN params
       THEN ModelCall("calculate_overpotentials", <<voltage, concentrations>>,
                      "ok",
                      calculate_overpotentials(params, voltage, concentrations))
       ELSE ModelCall("calculate_overpotentials", <<voltage, concentrations>>,
                      "KeyError", NoValue)
    /\ UNCHANGED <<results, simulated, figure>>

calculate_hydrogen_production(current) ==
    /\ ModelCall("calculate_hydrogen_production", <<current>>, "ok",
                 HydrogenProduction(current))
    /\ UNCHANGED <<results, simulated, figure>>

\* A plot_results without the guard on self.results: it would draw empty
\* axes when nothing was simulated.
plot_results_unguarded ==
    /\ ModelCall("plot_results", <<>>, "ok", NoValue)
    /\ figure' = [name |-> "plot_results",
                  voltage |-> IF results = None THEN <<>> ELSE results.voltage,
                  current_density |-> IF results = None THEN <<>>
                                      ELSE results.current_density,
                  power |-> IF results = None THEN <<>> ELSE results.power,
                  efficiency |-> IF results = None THEN <<>> ELSE results.efficiency]
    /\ UNCHANGED <<results, simulated>>

plot_results ==
    IF results = None
    THEN /\ ModelCall("plot_results", <<>>, "ValueError", NoValue)
         /\ UNCHANGED <<results, simulated, figure>>
    ELSE /\ ModelCall("plot_results", <<>>, "ok", NoValue)
         /\ figure' = [name |-> "plot_results",
                       voltage |-> results.voltage,
                       current_density |-> results.current_density,
                       power |-> results.power,
                       efficiency |-> results.efficiency]
         /\ UNCHANGED <<results, simulated>>

\* A point (voltage, current) of the stored IV curve result.
ResultPoints ==
    IF results = None THEN {}
    ELSE {<<results.voltage[i], results.current[i]>> :
            i \in 1..Len(results.voltage)}

NextModel ==
    \/ \E vr \in VoltageRanges, n \in 0..MaxPoints : simulate_iv_curve(vr, n)
    \/ \E pt \in ResultPoints :
          /\ Abs(pt[2]) <= MaxEffCurrent
          /\ calculate_energy_efficiency(pt[1], pt[2])
    \/ plot_results

SpecModel == InitModel /\ [][NextModel]_vars

\* The five calculations of the model, called directly by a caller.
NextCalculations ==
    \/ \E vr \in VoltageRanges, n \in 0..MaxPoints : simulate_iv_curve(vr, n)
    \/ \E pt \in ResultPoints :
          /\ Abs(pt[2]) <= MaxEffCurrent
          /\ calculate_energy_efficiency(pt[1], pt[2])
    \/ \E overpotential \in Overpotentials, k \in Kinetics :
          call_butler_volmer(overpotential, k[1], k[2], k[3])
    \/ \E voltage \in CellVoltages, concentrations \in ConcentrationInputs :
          call_calculate_overpotentials(voltage, concentrations)
    \/ \E current \in Currents : calculate_hydrogen_production(current)

SpecCalculations == InitModel /\ [][NextCalculations]_vars

(***************************************************************************)
(* Operations of the analysis and of the figure generator.                 *)
(***************************************************************************)
\* The call ends: r = [c, val] becomes the state of the analysis.
AnalysisCall(name, args, r, explicit) ==
    LET c == r.c
        total == [f \in {"iv", "h2"} |-> reads[f] + Attempts(c.log, f)]
    IN  /\ total["iv"] + total["h2"] <= MaxReads
        /\ last_op' = name
        /\ last_arg' = args
        /\ last_out' = c.err
        /\ last_ret' = r.val
        /\ io' = c.log
        /\ fit_calls' = c.fits
        /\ pre' = [iv |-> iv_data, h2 |-> h2_data]
        /\ iv_data' = c.iv
        /\ h2_data' = c.h2
        /\ reads' = [iv |-> total["iv"], h2 |-> total["h2"]]
        /\ read_failed' = (read_failed \/ Failures(c.log) # {})
        /\ load_called' = (load_called \/ explicit)
        /\ UNCHANGED <<iv_file, h2_file, params, ctor>>

Untouched == UNCHANGED <<results, simulated, figure>>

\* The outcomes of a pd.read_csv call (of a fit) that the call can reach.
Outcomes(reached) == IF reached THEN BOOLEAN ELSE {TRUE}

\* The parameters a fit can end on when it is reached and converges.
Optima(reached) == IF reached THEN FitCandidates ELSE {TafelInitialGuess}

load_iv_data ==
    \E readable \in BOOLEAN :
        /\ AnalysisCall("load_iv_data", <<>>, LoadIvData(Start, readable), TRUE)
        /\ Untouched

load_h2_data ==
    \E readable \in BOOLEAN :
        /\ AnalysisCall("load_h2_data", <<>>, LoadH2Data(Start, readable), TRUE)
        /\ Untouched

calculate_performance_metrics ==
    \E iv_readable \in Outcomes(iv_data = None),
       h2_readable \in Outcomes(h2_data = None) :
        /\ AnalysisCall("calculate_performance_metrics", <<>>,
              CalculatePerformanceMetrics(Start, iv_readable, h2_readable), FALSE)
        /\ Untouched

interpolate_current(voltage) ==
    \E readable \in Outcomes(iv_data = None) :
        /\ AnalysisCall("interpolate_current", <<voltage>>,
              InterpolateCurrent(Start, readable, voltage), FALSE)
        /\ Untouched

interpolate_voltage(current_density) ==
    \E readable \in Outcomes(iv_data = None) :
        /\ AnalysisCall("interpolate_voltage", <<current_density>>,
              InterpolateVoltage(Start, readable, current_density), FALSE)
        /\ Untouched

fit_tafel_equation(voltage_range) ==
    \E readable \in Outcomes(iv_data = None), converges \in BOOLEAN :
    \E popt \in Optima(readable /\ converges) :
        /\ AnalysisCall("fit_tafel_equation", <<voltage_range>>,
              FitTafelEquation(Start, readable, voltage_range, converges, popt),
              FALSE)
        /\ Untouched

generate_summary_report ==
    \E iv_readable \in Outcomes(iv_data = None),
       h2_readable \in Outcomes(h2_data = None), converges \in BOOLEAN :
    \E popt \in Optima(iv_readable /\ h2_readable /\ converges) :
        /\ AnalysisCall("generate_summary_report", <<>>,
              GenerateSummaryReport(Start, iv_readable, h2_readable, converges,
                                    popt),
              FALSE)
        /\ Untouched

plot_iv_curve(show_fit) ==
    \E readable \in Outcomes(iv_data = None), converges \in Outcomes(show_fit) :
    \E popt \in Optima(show_fit /\ readable /\ converges) :
        LET c1 == EnsureIv(Start, readable)
            tafel_fit == IF show_fit
                         THEN FitTafelEquation(c1, TRUE, TafelDefaultRange,
                                               converges, popt)
                         ELSE Done(c1, NoValue)
        IN  /\ AnalysisCall("plot_iv_curve", <<show_fit>>,
                            Done(tafel_fit.c, NoValue), FALSE)
            /\ figure' = IF tafel_fit.c.err = "ok"
                         THEN [name |-> "plot_iv_curve",
                               experimental |-> c1.iv.id,
                               tafel_fit |-> tafel_fit.val]
                         ELSE figure
            /\ UNCHANGED <<results, simulated>>

plot_h2_production ==
    \E readable \in Outcomes(h2_data = None) :
        LET c1 == EnsureH2(Start, readable)
        IN  /\ AnalysisCall("plot_h2_production", <<>>, Done(c1, NoValue), FALSE)
            /\ figure' = IF c1.err = "ok"
                         THEN [name |-> "plot_h2_production",
                               experimental |-> c1.h2.id]
                         ELSE figure
            /\ UNCHANGED <<results, simulated>>

\* The call of a figure method ends: g becomes the state.
FigureCall(name, g) ==
    /\ AnalysisCall(name, <<>>, Done(g.c, NoValue), Attempts(g.c.log, "iv")
                                                  + Attempts(g.c.log, "h2") > 0)
    /\ results' = g.results
    /\ simulated' = g.simulated
    /\ figure' = g.figure

figure_1_schematic == FigureCall("figure_1_schematic", Figure1Schematic(StartFigures))

figure_2_iv_curves ==
    \E readable \in BOOLEAN :
    \E converges \in Outcomes(readable) :
    \E popt \in Optima(readable /\ converges) :
        FigureCall("figure_2_iv_curves",
                   Figure2IvCurves(StartFigures, readable, converges, popt))

figure_3_hydrogen_production ==
    \E readable \in BOOLEAN :
        FigureCall("figure_3_hydrogen_production",
                   Figure3HydrogenProduction(StartFigures, readable))

figure_4_efficiency ==
    \E readable \in BOOLEAN :
        FigureCall("figure_4_efficiency", Figure4Efficiency(StartFigures, readable))

generate_all_figures ==
    \E iv_readable \in BOOLEAN :
    \E converges \in Outcomes(iv_readable) :
    \E popt \in Optima(iv_readable /\ converges) :
    \E h2_readable \in Outcomes(iv_readable /\ converges) :
    \E iv_readable_again \in Outcomes(iv_readable /\ converges /\ h2_readable) :
        FigureCall("generate_all_figures",
                   GenerateAllFigures(StartFigures, iv_readable, converges, popt,
                                      h2_readable, iv_readable_again))

NextAnalysis ==
    \/ load_iv_data
    \/ load_h2_data
    \/ calculate_performance_metrics
    \/ \E voltage \in QueryVoltages : interpolate_current(voltage)
    \/ \E current_density \in QueryCurrents : interpolate_voltage(current_density)
    \/ \E voltage_range \in TafelRanges : fit_tafel_equation(voltage_range)
    \/ generate_summary_report
    \/ \E show_fit \in BOOLEAN : plot_iv_curve(show_fit)
    \/ plot_h2_production

SpecAnalysis == InitAnalysis /\ [][NextAnalysis]_vars

\* The figure generator, whose analysis the caller may also load directly.
NextFigures ==
    \/ load_iv_data
    \/ load_h2_data
    \/ figure_1_schematic
    \/ figure_2_iv_curves
    \/ figure_3_hydrogen_production
    \/ figure_4_efficiency
    \/ generate_all_figures

SpecFigures == InitAnalysis /\ [][NextFigures]_vars

(***************************************************************************)
(* Properties of the model, over the behaviours of SpecModel.              *)
(***************************************************************************)

\* C1: plot_results on a model whose simulate_iv_curve never completed
\* fails with ValueError ("No results to plot"), returns nothing and
\* renders nothing; after a completed simulate_iv_curve it does not fail
\* with that error and renders the stored result.
PlotNeedsResults ==
    last_op = "plot_results" =>
        IF simulated
        THEN /\ last_out = "ok"
             /\ figure # None
             /\ figure.voltage = results.voltage
        ELSE /\ last_out = "ValueError"
             /\ last_ret = NoValue
             /\ figure = None
             /\ results = None

PlotBeforeSimulate ==
    /\ last_op = "plot_results"
    /\ ~simulated
    /\ last_out = "ValueError"
    /\ figure = None

\* C6 as stated: after construction every recognised key is present,
\* supplied keys keep the caller's value, omitted keys take the default,
\* and simulate_iv_curve does not fail for a missing key.
EachOmittedKeyDefaults ==
    /\ DOMAIN params = Keys
    /\ \A k \in Keys :
          params[k] = IF ctor # None /\ k \in DOMAIN ctor
                      THEN ctor[k] ELSE _get_default_parameters[k]
    /\ last_op = "simulate_iv_curve" => last_out # "KeyError"

\* C6 amended: the defaults are taken as a whole, only when the argument
\* is None or empty; a non-empty argument is the parameter set as given,
\* omitted keys stay absent, and simulate_iv_curve fails with KeyError
\* exactly when a key it reads is absent (with no voltage point it reads
\* only length and width).
DefaultsOnlyForMissingSet ==
    LET whole == ctor = None \/ DOMAIN ctor = {}
        read == IF last_arg[2] > 0
                THEN {"temperature", "roughness", "anode_i0", "alpha_a",
                      "cathode_i0", "alpha_c", "length", "width"}
                ELSE {"length", "width"}
    IN  /\ whole => /\ DOMAIN params = Keys
                    /\ params["length"] = LENGTH
                    /\ params["width"] = WIDTH
                    /\ params["height"] = ELECTRODE_SEPARATION
                    /\ params["temperature"] = TEMPERATURE
                    /\ params["pressure"] = PRESSURE
                    /\ params["inlet_velocity"] = INLET_VELOCITY
                    /\ params["anode_i0"] = ANODE_EXCHANGE_CURRENT
                    /\ params["cathode_i0"] = CATHODE_EXCHANGE_CURRENT
                    /\ params["alpha_a"] = ANODE_CHARGE_TRANSFER
                    /\ params["alpha_c"] = CATHODE_CHARGE_TRANSFER
                    /\ params["roughness"] = ROUGHNESS_FACTOR
        /\ ~whole => params = ctor
        /\ last_op = "simulate_iv_curve" =>
              /\ last_out \in {"ok", "KeyError"}
              /\ last_out = "KeyError" <=> ~(read \subseteq DOMAIN params)
              /\ last_out = "KeyError" => last_ret = NoValue /\ (results = None <=> ~simulated)

PartialSetFailsSimulate ==
    /\ last_op = "simulate_iv_curve"
    /\ last_out = "KeyError"
    /\ ctor # None
    /\ "height" \in DOMAIN ctor
    /\ "alpha_a" \notin DOMAIN params
    /\ results = None

\* The two electrode magnitudes at the i-th voltage of the returned sweep.
AnodeMagnitude(i) ==
    LET eta == calculate_overpotentials(params, last_ret.voltage[i], SweepConcentrations)
    IN  Abs(butler_volmer(params, eta[1], params["anode_i0"], params["alpha_a"], 4))
CathodeMagnitude(i) ==
    LET eta == calculate_overpotentials(params, last_ret.voltage[i], SweepConcentrations)
    IN  Abs(butler_volmer(params, eta[2], params["cathode_i0"], params["alpha_c"], 2))
SmallerMagnitude(i) ==
    IF AnodeMagnitude(i) <= CathodeMagnitude(i)
    THEN AnodeMagnitude(i) ELSE CathodeMagnitude(i)

\* C7 as stated: at every sampled voltage the total current is
\* min(|i_a|, |i_c|) times length x width and the current_density field
\* equals that same minimum.
DensityFieldIsMinimum ==
    (last_op = "simulate_iv_curve" /\ last_out = "ok") =>
        \A i \in 1..Len(last_ret.voltage) :
            /\ last_ret.current[i] = SmallerMagnitude(i) * params["length"] * params["width"]
            /\ last_ret.current_density[i] = SmallerMagnitude(i)

\* C7 amended: at every sampled voltage the total current is
\* min(|i_a|, |i_c|) (anode with 4 electrons, cathode with 2) times
\* length x width, and the current_density field is that total divided
\* by length x width again: the minimum when the area is not zero, NaN
\* (0/0) when it is.
DensityFieldIsCurrentOverArea ==
    (last_op = "simulate_iv_curve" /\ last_out = "ok") =>
        /\ Len(last_ret.voltage) = last_arg[2]
        /\ Len(last_ret.current) = last_arg[2]
        /\ Len(last_ret.current_density) = last_arg[2]
        /\ \A i \in 1..Len(last_ret.voltage) :
            LET area == params["length"] * params["width"]
            IN  /\ last_ret.current[i] = SmallerMagnitude(i) * area
                /\ last_ret.current_density[i] =
                      IF area = 0 THEN NaN ELSE SmallerMagnitude(i)

CathodeLimitedPoint ==
    /\ last_op = "simulate_iv_curve"
    /\ last_out = "ok"
    /\ params["length"] # 0
    /\ \E i \in 1..Len(last_ret.voltage) :
          /\ CathodeMagnitude(i) < AnodeMagnitude(i)
          /\ last_ret.current_density[i] = CathodeMagnitude(i)
          /\ last_ret.current_density[i] > 0
    /\ \E i \in 1..Len(last_ret.voltage) :
          /\ AnodeMagnitude(i) < CathodeMagnitude(i)
          /\ last_ret.current_density[i] = AnodeMagnitude(i)

\* C8 as stated: for every point (voltage, current) of a simulated IV
\* result, calculate_energy_efficiency(voltage, current) equals the
\* theoretical cell voltage divided by the applied voltage, whatever the
\* current, and so equals the result's efficiency field at that point.
EfficiencyIsVoltageRatio ==
    last_op = "calculate_energy_efficiency" =>
        /\ last_ret = FDiv(THEORETICAL_CELL_VOLTAGE, last_arg[1], 1000)
        /\ \A i \in 1..Len(results.voltage) :
              (results.voltage[i] = last_arg[1] /\ results.current[i] = last_arg[2])
                  => last_ret = results.efficiency[i]

(***************************************************************************)
(* Properties of the analysis, over the behaviours of SpecAnalysis, and of  *)
(* the figure generator, over those of SpecFigures.                        *)
(***************************************************************************)

\* C2 as stated: a load_iv_data (load_h2_data) call on an instance whose
\* table is already cached makes no read and returns the identical cached
\* object, and one generate_all_figures run reads the IV file once for
\* its two load_iv_data calls.
LoadTwiceReadsOnce ==
    /\ (last_op = "load_iv_data" /\ last_out = "ok" /\ pre.iv # None) =>
          (Attempts(io, "iv") = 0 /\ last_ret = pre.iv)
    /\ (last_op = "load_h2_data" /\ last_out = "ok" /\ pre.h2 # None) =>
          (Attempts(io, "h2") = 0 /\ last_ret = pre.h2)
    /\ (last_op = "generate_all_figures" /\ last_out = "ok") => Attempts(io, "iv") = 1

\* C2 amended: every load_iv_data (load_h2_data) call reads its file
\* exactly once, cached table or not; when the read succeeds the call
\* stores and returns the newly read table, an object distinct from the
\* one cached before and holding the file's rows.  A generate_all_figures
\* run that completes reads the IV file twice (figure 2, figure 4) and
\* the hydrogen file once, and figure 4 draws the table read last.
EveryLoadReads ==
    /\ last_op = "load_iv_data" =>
          /\ Attempts(io, "iv") = 1 /\ Len(io) = 1
          /\ last_out = "ok" => /\ last_ret = iv_data
                           /\ last_ret # pre.iv
                           /\ last_ret.rows = iv_file
                           /\ last_ret.id = reads["iv"]
    /\ last_op = "load_h2_data" =>
          /\ Attempts(io, "h2") = 1 /\ Len(io) = 1
          /\ last_out = "ok" => /\ last_ret = h2_data
                           /\ last_ret # pre.h2
                           /\ last_ret.rows = h2_file
                           /\ last_ret.id = reads["h2"]
    /\ (last_op = "generate_all_figures" /\ last_out = "ok") =>
          /\ Attempts(io, "iv") = 2
          /\ Attempts(io, "h2") = 1
          /\ iv_data.id = reads["iv"]
          /\ figure.name = "fig4_efficiency"
          /\ figure.experimental = iv_data.id

SecondLoadReadsAgain ==
    /\ last_op = "load_iv_data"
    /\ last_out = "ok"
    /\ pre.iv # None
    /\ reads["iv"] = 2
    /\ last_ret # pre.iv
    /\ last_ret.rows = pre.iv.rows

LazyQueries == {"calculate_performance_metrics", "interpolate_current",
                "interpolate_voltage", "fit_tafel_equation",
                "generate_summary_report"}

\* C3: on an instance that saw no explicit load and no failed read, each
\* of the two files has been read at most once, and a lazy call made
\* while the table it needs is loaded reads nothing of it and leaves the
\* cached table in place.
LazyLoadsAtMostOnce ==
    /\ (~load_called /\ ~read_failed) => (reads["iv"] <= 1 /\ reads["h2"] <= 1)
    /\ (last_op \in LazyQueries /\ pre.iv # None) =>
          (Attempts(io, "iv") = 0 /\ iv_data = pre.iv)
    /\ (last_op \in {"calculate_performance_metrics", "generate_summary_report"}
          /\ pre.h2 # None) =>
          (Attempts(io, "h2") = 0 /\ h2_data = pre.h2)

LazyCallOnLoadedTable ==
    /\ last_op \in LazyQueries
    /\ pre.iv # None
    /\ ~load_called
    /\ ~read_failed
    /\ reads["iv"] = 1
    /\ io = <<>>
    /\ last_out = "ok"

ImplicitLoadQueries == {"interpolate_current", "interpolate_voltage",
                        "fit_tafel_equation", "calculate_performance_metrics"}

\* C4: a query on an instance whose table is not loaded starts with one
\* read of that table's file; when the read succeeds the table holds the
\* file's rows and the query answers from them, and the query fails with
\* the file error only when a read of its own failed.
QueryLoadsOnDemand ==
    last_op \in ImplicitLoadQueries =>
        /\ pre.iv = None =>
              /\ Attempts(io, "iv") = 1
              /\ io[1] = [file |-> "iv", ok |-> iv_data # None]
              /\ iv_data # None => iv_data.rows = iv_file
        /\ (last_op = "calculate_performance_metrics" /\ pre.h2 = None
              /\ iv_data # None) =>
              /\ Attempts(io, "h2") = 1
              /\ io[Len(io)] = [file |-> "h2", ok |-> h2_data # None]
              /\ h2_data # None => h2_data.rows = h2_file
        /\ last_out = "FileNotFoundError" <=> Failures(io) # {}
        /\ (last_op = "interpolate_current" /\ Failures(io) = {} /\ iv_file # <<>>) =>
              /\ last_out = "ok"
              /\ last_ret = Interp(last_arg[1], Column(iv_file, "voltage_V"),
                              Column(iv_file, "current_density_A_m2"))
        /\ (last_op = "interpolate_voltage" /\ Failures(io) = {} /\ iv_file # <<>>) =>
              /\ last_out = "ok"
              /\ last_ret = Interp(last_arg[1], Column(iv_file, "current_density_A_m2"),
                              Column(iv_file, "voltage_V"))
        /\ (last_op = "fit_tafel_equation" /\ last_out = "ok") =>
              /\ Len(fit_calls) = 1
              /\ Len(fit_calls[1].voltage) >= 2
              /\ \A i \in 1..Len(fit_calls[1].voltage) :
                    \E k \in 1..Len(iv_file) :
                        /\ fit_calls[1].voltage[i] = iv_file[k].voltage_V
                        /\ fit_calls[1].current[i] = iv_file[k].current_density_A_m2
        /\ (last_op = "calculate_performance_metrics" /\ last_out = "ok") =>
              /\ last_ret.max_current_density =
                    SeriesMax(Column(iv_file, "current_density_A_m2"))
              /\ last_ret.max_h2_rate_mmol_s =
                    SeriesMax(Column(h2_file, "h2_production_mmol_s"))

QueryOnUnloadedTable ==
    /\ last_op = "interpolate_voltage"
    /\ pre.iv = None
    /\ io = <<[file |-> "iv", ok |-> TRUE]>>
    /\ last_out = "ok"
    /\ last_arg = <<25000>>
    /\ iv_data.rows = IvExample
    /\ last_ret = 1250

\* C5: an operation one of whose reads failed, explicit load or lazy
\* query alike, fails with the file error and returns no value; the
\* failed read is the only failed one and the last thing the operation
\* did (no retry), and the table of that file is not replaced by it.
FailedReadIsTerminal ==
    Failures(io) # {} =>
        /\ last_out = "FileNotFoundError"
        /\ last_ret = NoValue
        /\ Failures(io) = {Len(io)}
        /\ last_op # "generate_all_figures" => Attempts(io, io[Len(io)].file) = 1
        /\ io[Len(io)].file = "iv" =>
              (iv_data = None \/ iv_data.id < reads["iv"])
        /\ io[Len(io)].file = "h2" =>
              (h2_data = None \/ h2_data.id < reads["h2"])
        /\ read_failed

ImplicitLoadFails ==
    /\ last_op = "calculate_performance_metrics"
    /\ io = <<[file |-> "iv", ok |-> TRUE], [file |-> "h2", ok |-> FALSE]>>
    /\ last_out = "FileNotFoundError"
    /\ last_ret = NoValue
    /\ h2_data = None

\* C9: interpolate_current at a sample voltage of the loaded table
\* returns that sample's current density; below the first (above the
\* last) sample voltage it returns the first (last) sample's current
\* density, and it never leaves the range of the table's values.
InterpolateCurrentClamps ==
    (last_op = "interpolate_current" /\ last_out = "ok") =>
        LET rows == iv_data.rows
            n == Len(rows)
            q == last_arg[1]
        IN  /\ \A i \in 1..n :
                  rows[i].voltage_V = q => last_ret = rows[i].current_density_A_m2
            /\ q < rows[1].voltage_V => last_ret = rows[1].current_density_A_m2
            /\ q > rows[n].voltage_V => last_ret = rows[n].current_density_A_m2
            /\ \E i, k \in 1..n :
                  /\ rows[i].current_density_A_m2 <= last_ret
                  /\ last_ret <= rows[k].current_density_A_m2

InterpolateAtSample ==
    /\ last_op = "interpolate_current"
    /\ last_out = "ok"
    /\ iv_data.rows = IvExample
    /\ last_arg = <<1500>>
    /\ last_ret = 50000

\* C10: for a query strictly between two adjacent samples,
\* interpolate_current (interpolate_voltage, columns swapped) returns
\* y0 + (q - x0) (y1 - y0) / (x1 - x0); on voltages 1.0, 1.5, 2.0 with
\* current densities 0, 50, 100 the value at 1.25 is 25 and at 3.0 is 100.
InterpolateBlends ==
    /\ (last_op \in {"interpolate_current", "interpolate_voltage"} /\ last_out = "ok") =>
          LET xn == IF last_op = "interpolate_current"
                    THEN "voltage_V" ELSE "current_density_A_m2"
              yn == IF last_op = "interpolate_current"
                    THEN "current_density_A_m2" ELSE "voltage_V"
              rows == iv_data.rows
              q == last_arg[1]
          IN  \A j \in 1..(Len(rows) - 1) :
                  (rows[j][xn] < q /\ q < rows[j + 1][xn]) =>
                      last_ret = rows[j][yn]
                            + TruncDiv((q - rows[j][xn]) * (rows[j + 1][yn] - rows[j][yn]),
                                       rows[j + 1][xn] - rows[j][xn])
    /\ (last_op = "interpolate_current" /\ last_out = "ok" /\ iv_data.rows = IvExample) =>
          /\ last_arg = <<1250>> => last_ret = 25000
          /\ last_arg = <<3000>> => last_ret = 100000

InterpolateBetweenSamples ==
    /\ last_op = "interpolate_current"
    /\ last_out = "ok"
    /\ iv_data.rows = IvExample
    /\ last_arg = <<1250>>
    /\ last_ret = 25000

\* The rows of the loaded IV table inside the window of the last
\* fit_tafel_equation call, in table order.
RowsInWindow ==
    LET Inside(row) == last_arg[1][1] <= row.voltage_V /\ row.voltage_V <= last_arg[1][2]
    IN  SelectSeq(iv_data.rows, Inside)

\* C11: fit_tafel_equation on a readable table makes one curve_fit call;
\* when fewer than 2 rows lie in the window, or the optimizer does not
\* converge, the call ends with the error curve_fit raised and returns
\* no fit result; otherwise it returns one.
FitFailurePropagates ==
    (last_op = "fit_tafel_equation" /\ Failures(io) = {}) =>
        /\ Len(fit_calls) = 1
        /\ Len(fit_calls[1].current) = Len(RowsInWindow)
        /\ IF Len(RowsInWindow) < 2 \/ ~fit_calls[1].converged
           THEN /\ last_out \in {"ValueError", "TypeError", "RuntimeError"}
                /\ last_ret = NoValue
                /\ Len(RowsInWindow) = 0 <=> last_out = "ValueError"
                /\ Len(RowsInWindow) = 1 <=> last_out = "TypeError"
           ELSE /\ last_out = "ok"
                /\ last_ret # NoValue

FitDoesNotConverge ==
    /\ last_op = "fit_tafel_equation"
    /\ last_out = "RuntimeError"
    /\ last_ret = NoValue
    /\ Len(RowsInWindow) = 4
    /\ ~fit_calls[1].converged

\* C12 as stated: every fit result returned by fit_tafel_equation carries
\* an R2 that is a number in (-inf, 1], also when the current densities
\* of the window are all equal.
RSquaredAtMostOne ==
    (last_op = "fit_tafel_equation" /\ last_out = "ok") =>
        /\ last_ret.r_squared # NaN
        /\ -Inf < last_ret.r_squared
        /\ last_ret.r_squared <= 1000

\* C20: fit_tafel_equation hands curve_fit exactly the rows of the loaded
\* IV table with lo <= voltage <= hi, in table order; its result holds
\* a, b, r_squared, covariance and the caller's voltage_range; the call
\* leaves the hydrogen table alone and the IV table too, unless it had to
\* load it.
FitUsesInclusiveWindow ==
    (last_op = "fit_tafel_equation" /\ Failures(io) = {}) =>
        /\ Len(fit_calls) = 1
        /\ fit_calls[1].voltage = Column(RowsInWindow, "voltage_V")
        /\ fit_calls[1].current = Column(RowsInWindow, "current_density_A_m2")
        /\ \A k \in 1..Len(iv_data.rows) :
              LET v == iv_data.rows[k].voltage_V
              IN  (last_arg[1][1] <= v /\ v <= last_arg[1][2])
                     <=> \E i \in 1..Len(fit_calls[1].voltage) :
                            fit_calls[1].voltage[i] = v
        /\ last_out = "ok" =>
              /\ DOMAIN last_ret = {"a", "b", "r_squared", "covariance", "voltage_range"}
              /\ last_ret.voltage_range = last_arg[1]
        /\ h2_data = pre.h2
        /\ pre.iv # None => iv_data = pre.iv
        /\ iv_data.rows = iv_file

FitOnBothBounds ==
    /\ last_op = "fit_tafel_equation"
    /\ last_out = "ok"
    /\ pre.iv # None
    /\ last_arg = <<<<1200, 1400>>>>
    /\ iv_data.rows = IvMeasured
    /\ fit_calls[1].voltage = <<1200, 1400>>
    /\ last_ret.voltage_range = <<1200, 1400>>

\* C13: a butler_volmer call at overpotential 0 returns a current density
\* of 0, whatever i0, alpha and n it is given and whatever roughness and
\* temperature the model holds.
ButlerVolmerZeroAtEquilibrium ==
    (last_op = "butler_volmer" /\ last_out = "ok" /\ last_arg[1] = 0) => last_ret = 0

ButlerVolmerAtZeroAsymmetric ==
    /\ last_op = "butler_volmer"
    /\ last_out = "ok"
    /\ last_arg = <<0, 10, 125, 1>>
    /\ params["temperature"] = 35000
    /\ last_ret = 0

\* The voltage_range simulate_iv_curve sweeps in the last call.
SweptRange == IF last_arg[1] = None THEN DefaultRange ELSE last_arg[1]

PhysicallyValid ==
    /\ LoopKeys \subseteq DOMAIN params
    /\ \A k \in {"length", "width", "anode_i0", "cathode_i0", "roughness"} :
          params[k] > 0
    /\ \A k \in {"alpha_a", "alpha_c"} : 0 < params[k] /\ params[k] < 1000

\* C15: with a physically valid parameter set every current density (and
\* every current) of a simulate_iv_curve result is a non-negative number,
\* also at sampled voltages below the anode equilibrium potential.
DensityNonNegative ==
    (last_op = "simulate_iv_curve" /\ last_out = "ok" /\ PhysicallyValid) =>
        \A i \in 1..Len(last_ret.current_density) :
            /\ last_ret.current_density[i] # NaN
            /\ last_ret.current_density[i] >= 0
            /\ last_ret.current[i] # NaN
            /\ last_ret.current[i] >= 0

PositiveDensityBelowEquilibrium ==
    /\ last_op = "simulate_iv_curve"
    /\ last_out = "ok"
    /\ PhysicallyValid
    /\ \E i \in 1..Len(last_ret.voltage) :
          /\ last_ret.voltage[i] < STANDARD_OXYGEN_POTENTIAL
          /\ butler_volmer(params, last_ret.voltage[i] - STANDARD_OXYGEN_POTENTIAL,
                           params["anode_i0"], params["alpha_a"], 4) < 0
          /\ last_ret.current_density[i] > 0

\* C16: calculate_hydrogen_production(current) completes on every model
\* and returns current / (2 F): 0 for a current of 0, exactly 1 mol/s for
\* a current of 2 F, half of that for F, and in general the quotient
\* rounded to the unit of the rate, with the sign of the current.
HydrogenRateIsCurrentOverTwoFaraday ==
    last_op = "calculate_hydrogen_production" =>
        /\ last_out = "ok"
        /\ last_arg[1] = 0 => last_ret = 0
        /\ last_arg[1] = 2 * FARADAY_CONSTANT => last_ret = 1000
        /\ last_arg[1] = FARADAY_CONSTANT => last_ret = 500
        /\ Abs(last_arg[1] * 1000 - last_ret * 2 * FARADAY_CONSTANT) < 2 * FARADAY_CONSTANT
        /\ Sign(last_ret) \in {0, Sign(last_arg[1])}

OneMolePerSecondWithoutTemperature ==
    /\ last_op = "calculate_hydrogen_production"
    /\ last_out = "ok"
    /\ last_arg = <<2 * FARADAY_CONSTANT>>
    /\ last_ret = 1000
    /\ "temperature" \notin DOMAIN params

ResultFields == {"voltage", "current", "current_density", "power", "efficiency"}

\* C17: a completed simulate_iv_curve call stores what it returns, a result
\* whose five fields all have num_points entries and belong to the sweep
\* of that call (its voltages, and the power and efficiency of each of
\* them); every other step, a failed simulate_iv_curve call included,
\* leaves the stored result as it was.  So the stored result is always
\* the one of the most recent completed call.
StoredResultIsLastSweep ==
    [][IF last_op' = "simulate_iv_curve" /\ last_out' = "ok"
       THEN /\ results' = last_ret'
            /\ DOMAIN results' = ResultFields
            /\ \A f \in ResultFields : Len(results'[f]) = last_arg'[2]
            /\ results'.voltage =
                  linspace((IF last_arg'[1] = None THEN DefaultRange ELSE last_arg'[1])[1],
                           (IF last_arg'[1] = None THEN DefaultRange ELSE last_arg'[1])[2],
                           last_arg'[2])
            /\ \A i \in 1..last_arg'[2] :
                  /\ results'.power[i] =
                        FMulDiv(results'.current[i], results'.voltage[i], 10^4)
                  /\ results'.efficiency[i] =
                        FDiv(THEORETICAL_CELL_VOLTAGE, results'.voltage[i], 1000)
       ELSE results' = results]_vars

\* A sweep of 2 points has replaced the sweep of 3 points that was plotted.
SecondSweepReplacesFirst ==
    /\ last_op = "simulate_iv_curve"
    /\ last_out = "ok"
    /\ last_arg[2] = 2
    /\ figure # None
    /\ Len(figure.voltage) = 3
    /\ Len(results.voltage) = 2
    /\ Len(results.efficiency) = 2
    /\ results = last_ret

\* The calculations that only compute a value.
PureCalculations ==
    {"butler_volmer", "calculate_overpotentials",
     "calculate_hydrogen_production", "calculate_energy_efficiency"}

\* C18: no butler_volmer, calculate_overpotentials, simulate_iv_curve,
\* calculate_hydrogen_production or calculate_energy_efficiency call,
\* completed or failed, changes the parameter set, which keeps the keys
\* and values it had right after construction; the four calls other than
\* simulate_iv_curve leave the stored IV result unchanged as well.
ParametersAndResultFramed ==
    [][/\ params' = params
       /\ params' = InitParams(ctor')
       /\ last_op' \in PureCalculations => results' = results]_vars

\* A calculation on a caller's parameter set after a completed sweep.
OverpotentialsAfterSweep ==
    /\ last_op = "calculate_overpotentials"
    /\ last_out = "ok"
    /\ results # None
    /\ Len(results.voltage) = 3
    /\ params = ctor
    /\ params["temperature"] = 35000

\* C19: a completed calculate_overpotentials call returns the anode
\* overpotential voltage - 1.229 V and, as the cathode overpotential, the
\* cathode equilibrium potential: 0 when no 'H+' concentration is
\* supplied, 0 - (R T / F) ln(c / 1000) when one is (0.414 V at pH 7 and
\* 298.15 K, 0 at the 1 M reference).  It does not depend on the voltage:
\* in a completed sweep the cathode magnitude is the same at every
\* sampled voltage and no current density, when it is a number, exceeds it.
OverpotentialsFollowNernst ==
    /\ (last_op = "calculate_overpotentials" /\ last_out = "ok") =>
          /\ last_ret[1] = last_arg[1] - STANDARD_OXYGEN_POTENTIAL
          /\ "H+" \notin DOMAIN last_arg[2] => last_ret[2] = 0
          /\ "H+" \in DOMAIN last_arg[2] =>
                /\ last_ret[2] = 0 - TruncDiv(RT_F(params) * (last_arg[2]["H+"] - 3) * LN10,
                                         10^6)
                /\ last_arg[2]["H+"] = 3 => last_ret[2] = 0
                /\ (last_arg[2]["H+"] = PH7_DECADE /\ params["temperature"] = TEMPERATURE)
                      => last_ret[2] = 414
    /\ (last_op = "simulate_iv_curve" /\ last_out = "ok") =>
          \A i \in 1..Len(last_ret.voltage) :
              /\ CathodeMagnitude(i) = CathodeMagnitude(1)
              /\ \/ last_ret.current_density[i] = NaN
                 \/ last_ret.current_density[i] <= CathodeMagnitude(i)

\* The cathode overpotential at pH 7 and 350 K, called at 2.0 V.
NernstCorrectedCathode ==
    /\ last_op = "calculate_overpotentials"
    /\ last_out = "ok"
    /\ last_arg[1] = 2000
    /\ "H+" \in DOMAIN last_arg[2]
    /\ last_arg[2]["H+"] = PH7_DECADE
    /\ params["temperature"] = 35000
    /\ last_ret = <<771, 486>>

\* The methods that load the IV table on demand and never the hydrogen
\* table, and the one that loads only the hydrogen table.
IvOnlyCalls == {"load_iv_data", "interpolate_current", "interpolate_voltage",
                "fit_tafel_equation", "plot_iv_curve"}
H2OnlyCalls == {"load_h2_data", "plot_h2_production"}
IvFirstCalls == IvOnlyCalls \cup {"calculate_performance_metrics",
                                  "generate_summary_report"}

\* The table of file f that a call leaves cached when its last read
\* failed: the one read last by the call before the failure, or, when the
\* call read none, the one cached before the call.
TableBeforeFailure(f, before, log, total, rows) ==
    IF \E i \in 1..Len(log) : log[i].file = f /\ log[i].ok
    THEN [id |-> total[f] - (IF log[Len(log)].file = f THEN 1 ELSE 0),
          rows |-> rows]
    ELSE before

\* C21: a load that fails, called by the caller or started by a query,
\* leaves both cached tables as they were when that load began: a table
\* that was unloaded stays unloaded and the next query that needs it
\* reads its file again, a loaded table is kept as the same object, and
\* a load of one file, failing or not, never changes the table of the
\* other file.
FailedLoadKeepsTables ==
    [][/\ Failures(io') # {} =>
             /\ iv_data' = TableBeforeFailure("iv", iv_data, io', reads', iv_file)
             /\ h2_data' = TableBeforeFailure("h2", h2_data, io', reads', h2_file)
             /\ Attempts(io', "iv") + Attempts(io', "h2") = 1 =>
                    (iv_data' = iv_data /\ h2_data' = h2_data)
       /\ last_op' \in IvOnlyCalls => (h2_data' = h2_data /\ Attempts(io', "h2") = 0)
       /\ last_op' \in H2OnlyCalls => (iv_data' = iv_data /\ Attempts(io', "iv") = 0)
       /\ (iv_data = None /\ last_op' \in IvFirstCalls) =>
             (Attempts(io', "iv") = 1 /\ io'[1].file = "iv")
       /\ (h2_data = None /\ last_op' \in H2OnlyCalls) => Attempts(io', "h2") = 1
      ]_vars

\* A failing load_iv_data on an instance whose IV table is loaded and
\* whose hydrogen table is not.
FailedReloadKeepsTable ==
    /\ last_op = "load_iv_data"
    /\ last_out = "FileNotFoundError"
    /\ io = <<[file |-> "iv", ok |-> FALSE]>>
    /\ pre.iv # None
    /\ iv_data = pre.iv
    /\ iv_data.id = 1
    /\ reads["iv"] = 2
    /\ pre.h2 = None
    /\ h2_data = None

====
